---- MODULE Spec2Model ----
(***************************************************************************)
(* Model of gateway/src/inference/providers/gcp_vertex_anthropic.rs: the   *)
(* GCP Vertex Anthropic provider adapter.                                  *)
(*                                                                         *)
(*   Spec     one streaming call: infer_stream opens the event source,     *)
(*            stream_anthropic decodes it event by event, the caller pulls  *)
(*            or drops the chunk stream.                                    *)
(*   SpecReq  GCPVertexAnthropicRequestBody::new applied to a request.      *)
(***************************************************************************)
EXTENDS Integers, Sequences, FiniteSets, TLC

\* Longest event source of a streaming call.
MaxEvents == 3
\* Longest message list of a request.
MaxMessages == 3
\* Most tools of a tool configuration.
MaxTools == 2
MaxPairEvents == 2
MaxKeys == 2

(***************************************************************************)
(* Option<T> and Result<T, E>                                              *)
(***************************************************************************)
None == <<>>
Some(x) == <<x>>
IsSome(o) == o # <<>>
Unwrap(o) == o[1]

Ok(v) == [tag |-> "Ok", val |-> v]
Err(e) == [tag |-> "Err", val |-> e]
IsOk(r) == r.tag = "Ok"
IsErr(r) == r.tag = "Err"

\* Error::AnthropicServer { message }
AnthropicServer(m) == [err |-> "AnthropicServer", status |-> 0, message |-> m]
\* Error::AnthropicClient { status_code, message }
AnthropicClient(code, m) == [err |-> "AnthropicClient", status |-> code, message |-> m]
\* Error::InvalidRequest { message }
InvalidRequest(m) == [err |-> "InvalidRequest", status |-> 0, message |-> m]
\* Error::InvalidTool { message }
InvalidTool(m) == [err |-> "InvalidTool", status |-> 0, message |-> m]

(***************************************************************************)
(* The events of an event source: Result<Event, _>, an Event being Open or *)
(* Message; a message's data is the JSON text of one stream message, kept  *)
(* here as its fields (type tag, payload tag, payload fields).             *)
(***************************************************************************)
NoUsage == [present |-> FALSE, input_tokens |-> None, output_tokens |-> None]
\* A usage object: each count is Some(n) when it is a JSON unsigned number,
\* None when the key is missing or its value is not one.
UsageOf(i, o) == [present |-> TRUE, input_tokens |-> i, output_tokens |-> o]

RawEvent(ev, type, block, id, name, index, payload, usage) ==
    [ev |-> ev, type |-> type, block |-> block, id |-> id, name |-> name,
     index |-> index, payload |-> payload, usage |-> usage]

TransportError == RawEvent("error", "-", "-", "-", "-", 0, "-", NoUsage)
OpenEvent == RawEvent("open", "-", "-", "-", "-", 0, "-", NoUsage)
Message(type, block, id, name, index, payload, usage) ==
    RawEvent("message", type, block, id, name, index, payload, usage)

\* data that is no stream message: the type tag is not one of the enum's
Garbage == Message("unknown", "-", "-", "-", 0, "-", NoUsage)
StartText == Message("content_block_start", "text", "-", "-", 0, "Hello", NoUsage)
StartTool(id, name) == Message("content_block_start", "tool_use", id, name, 1, "-", NoUsage)
StartBad == Message("content_block_start", "input_json_delta", "-", "-", 1, "{", NoUsage)
DeltaText == Message("content_block_delta", "text_delta", "-", "-", 0, "lo", NoUsage)
DeltaJson == Message("content_block_delta", "input_json_delta", "-", "-", 1, "{\"a\":", NoUsage)
DeltaBad == Message("content_block_delta", "text", "-", "-", 0, "Hello", NoUsage)
BlockStop == Message("content_block_stop", "-", "-", "-", 0, "-", NoUsage)
ErrorEvent == Message("error", "-", "-", "-", 0, "overloaded", NoUsage)
MessageDelta == Message("message_delta", "-", "-", "-", 0, "-", UsageOf(None, Some(7)))
MessageStartUsage == Message("message_start", "-", "-", "-", 0, "-", UsageOf(Some(3), Some(1)))
MessageStartBare == Message("message_start", "-", "-", "-", 0, "-", NoUsage)
MessageStop == Message("message_stop", "-", "-", "-", 0, "-", NoUsage)
Ping == Message("ping", "-", "-", "-", 0, "-", NoUsage)

Events ==
    { TransportError, OpenEvent, Garbage, StartText, StartTool("t1", "n1"),
      StartTool("t2", "n2"), StartBad, DeltaText, DeltaJson, DeltaBad, BlockStop,
      ErrorEvent, MessageDelta, MessageStartUsage, MessageStartBare, MessageStop,
      Ping }

EventSources == UNION { [1..n -> Events] : n \in 0..MaxEvents }

StreamMessageTypes ==
    { "content_block_delta", "content_block_start", "content_block_stop", "error",
      "message_delta", "message_start", "message_stop", "ping" }
MessageBlockTypes == { "text", "text_delta", "tool_use", "input_json_delta" }

(***************************************************************************)
(* Chunks                                                                  *)
(***************************************************************************)
\* u32::to_string of a block index
IndexToString(i) == IF i = 0 THEN "0" ELSE "1"

\* a TextChunk has no raw_name field
TextChunk(id, text) == [kind |-> "Text", id |-> id, raw_name |-> "-", delta |-> text]
ToolCallChunk(id, raw_name, raw_arguments) ==
    [kind |-> "ToolCall", id |-> id, raw_name |-> raw_name, delta |-> raw_arguments]

\* ProviderInferenceResponseChunk::new(inference_id, content, usage, raw, latency)
Chunk(content, usage, raw_message) ==
    [content |-> content, usage |-> usage, raw |-> raw_message]

(***************************************************************************)
(* JSON: serde_json::Value, serde_json::from_str and serde_json::to_string. *)
(* A JSON text is kept as the sequence of its lexical tokens.              *)
(***************************************************************************)
\* serde_json::Value; an atom is kept as its literal, the members of an object
\* and the elements of an array as pairs << key, value >>
JsonValue(t, atom, members) == [t |-> t, atom |-> atom, members |-> members]
JsonNumber(literal) == JsonValue("number", literal, << >>)
JsonString(chars) == JsonValue("string", chars, << >>)
JsonLiteral(literal) == JsonValue("literal", literal, << >>)
JsonObject(members) == JsonValue("object", "-", members)
JsonArray(elements) ==
    JsonValue("array", "-", [i \in DOMAIN elements |-> << "", elements[i] >>])

\* the tokens of a JSON text
Token(k, s) == [k |-> k, s |-> s]
Punct(c) == Token("punct", c)
Str(chars) == Token("str", chars)
Num(literal) == Token("num", literal)
Lit(literal) == Token("lit", literal)
Ws == Token("ws", " ")
Junk == Token("junk", "oops")

\* the keys of the objects, in the order of String's Ord
KeyNames == << "a", "b", "c" >>
KeyRank(key) == CHOOSE i \in DOMAIN KeyNames : KeyNames[i] = key

\* Map<String, Value>::insert of the BTreeMap behind an object: the entries stay
\* sorted by key and a key that is present gets the new value
MapInsert(entries, key, value) ==
    LET before == SelectSeq(entries, LAMBDA e : KeyRank(e[1]) < KeyRank(key))
        after == SelectSeq(entries, LAMBDA e : KeyRank(e[1]) > KeyRank(key))
    IN  before \o << << key, value >> >> \o after

\* what a parsing step returns: a value and the position behind it, or a failure
Parsed(value, next) == [ok |-> TRUE, val |-> value, next |-> next]
ParseFailed == [ok |-> FALSE, val |-> JsonLiteral("null"), next |-> 0]

RECURSIVE SkipWhitespace(_, _)
SkipWhitespace(toks, i) ==
    IF i <= Len(toks) /\ toks[i].k = "ws" THEN SkipWhitespace(toks, i + 1) ELSE i

RECURSIVE ParseValue(_, _)
RECURSIVE ParseMembers(_, _, _, _)
RECURSIVE ParseElements(_, _, _, _)

\* the members of an object from position i on, i being behind `{` or `,`
ParseMembers(toks, i, entries, first) ==
    IF i > Len(toks)
    THEN ParseFailed
    ELSE IF first /\ toks[i] = Punct("}")
    THEN Parsed(JsonObject(entries), i + 1)
    ELSE IF toks[i].k # "str"
    THEN ParseFailed
    ELSE LET colon == SkipWhitespace(toks, i + 1)
         IN  IF colon > Len(toks) \/ toks[colon] # Punct(":")
             THEN ParseFailed
             ELSE LET value == ParseValue(toks, colon + 1)
                  IN  IF ~value.ok
                      THEN ParseFailed
                      ELSE LET n == SkipWhitespace(toks, value.next)
                               inserted == MapInsert(entries, toks[i].s, value.val)
                           IN  IF n > Len(toks)
                               THEN ParseFailed
                               ELSE IF toks[n] = Punct("}")
                               THEN Parsed(JsonObject(inserted), n + 1)
                               ELSE IF toks[n] = Punct(",")
                               THEN ParseMembers(toks, SkipWhitespace(toks, n + 1),
                                                 inserted, FALSE)
                               ELSE ParseFailed

\* the elements of an array from position i on, i being behind `[` or `,`
ParseElements(toks, i, elements, first) ==
    IF i > Len(toks)
    THEN ParseFailed
    ELSE IF first /\ toks[i] = Punct("]")
    THEN Parsed(JsonArray(elements), i + 1)
    ELSE LET value == ParseValue(toks, i)
         IN  IF ~value.ok
             THEN ParseFailed
             ELSE LET n == SkipWhitespace(toks, value.next)
                      pushed == Append(elements, value.val)
                  IN  IF n > Len(toks)
                      THEN ParseFailed
                      ELSE IF toks[n] = Punct("]")
                      THEN Parsed(JsonArray(pushed), n + 1)
                      ELSE IF toks[n] = Punct(",")
                      THEN ParseElements(toks, SkipWhitespace(toks, n + 1), pushed, FALSE)
                      ELSE ParseFailed

ParseValue(toks, i) ==
    LET j == SkipWhitespace(toks, i)
    IN  IF j > Len(toks)
        THEN ParseFailed
        ELSE CASE toks[j].k = "str" -> Parsed(JsonString(toks[j].s), j + 1)
               [] toks[j].k = "num" -> Parsed(JsonNumber(toks[j].s), j + 1)
               [] toks[j].k = "lit" -> Parsed(JsonLiteral(toks[j].s), j + 1)
               [] toks[j] = Punct("{") ->
                    ParseMembers(toks, SkipWhitespace(toks, j + 1), << >>, TRUE)
               [] toks[j] = Punct("[") ->
                    ParseElements(toks, SkipWhitespace(toks, j + 1), << >>, TRUE)
               [] OTHER -> ParseFailed

\* serde_json::from_str::<Value>: one value, and only whitespace behind it
json_from_str(text) ==
    LET value == ParseValue(text, 1)
    IN  IF ~value.ok
        THEN Err("expected value")
        ELSE IF SkipWhitespace(text, value.next) <= Len(text)
        THEN Err("trailing characters")
        ELSE Ok(value.val)

is_object(value) == value.t = "object"

\* Serializer::serialize of a Value with a Formatter: CompactFormatter writes
\* nothing between the tokens, PrettyFormatter writes whitespace
RECURSIVE Serialize(_, _)
RECURSIVE SerializeEntries(_, _, _, _)
SerializeEntries(entries, k, keyed, space) ==
    IF k > Len(entries)
    THEN << >>
    ELSE (IF k > 1 THEN << Punct(",") >> \o space ELSE << >>)
         \o (IF keyed THEN << Str(entries[k][1]), Punct(":") >> \o space ELSE << >>)
         \o Serialize(entries[k][2], space)
         \o SerializeEntries(entries, k + 1, keyed, space)

Serialize(value, space) ==
    CASE value.t = "object" ->
           << Punct("{") >> \o SerializeEntries(value.members, 1, TRUE, space)
                            \o << Punct("}") >>
      [] value.t = "array" ->
           << Punct("[") >> \o SerializeEntries(value.members, 1, FALSE, space)
                            \o << Punct("]") >>
      [] value.t = "string" -> << Str(value.atom) >>
      [] value.t = "number" -> << Num(value.atom) >>
      [] OTHER -> << Lit(value.atom) >>

\* serde_json::to_string_pretty
json_to_string_pretty(value) == Serialize(value, << Ws >>)

\* serde_json::to_string
json_to_string(value) == Serialize(value, << >>)

(***************************************************************************)
(* The neutral request: ModelInferenceRequest                              *)
(***************************************************************************)
\* ContentBlock::Text / ToolCall / ToolResult
\* body is the text of a Text or the result of a ToolResult, arguments the
\* arguments of a ToolCall
ContentBlock(kind, id, name, body, arguments) ==
    [kind |-> kind, id |-> id, name |-> name, body |-> body, arguments |-> arguments]
Text(text) == ContentBlock("Text", "-", "-", text, << >>)
ToolCall(id, name, arguments) == ContentBlock("ToolCall", id, name, "-", arguments)
ToolResult(id, name, result) == ContentBlock("ToolResult", id, name, result, << >>)

RequestMessage(role, content) == [role |-> role, content |-> content]

Roles == { "user", "assistant" }

\* the contents a message of a request is drawn from
Contents ==
    { << Text("hi") >>,
      << ToolCall("c1", "get_weather",
                  << Punct("{"), Str("a"), Punct(":"), Ws, Num("1"), Punct("}") >>),
         ToolResult("c0", "get_weather", "sunny") >>,
      << ToolCall("c2", "get_weather", << Punct("["), Num("1"), Punct("]") >>) >>,
      << ToolCall("c3", "get_weather", << Junk >>) >> }

RequestMessages == { RequestMessage(r, c) : r \in Roles, c \in Contents }
MessageLists == UNION { [1..n -> RequestMessages] : n \in 0..MaxMessages }

\* ToolConfig: name(), description(), parameters()
Tool(name, description, parameters) ==
    [name |-> name, description |-> description, parameters |-> parameters]
Tools ==
    { Tool("get_weather", "Get the weather", "weather_schema"),
      Tool("calculator", "Add numbers", "calculator_schema") }
ToolLists == UNION { [1..n -> Tools] : n \in 0..MaxTools }

\* ToolChoice::Auto / Required / Specific(name) / None
ToolChoice(kind, name) == [kind |-> kind, name |-> name]
ToolChoices ==
    { ToolChoice("Auto", "-"), ToolChoice("Required", "-"),
      ToolChoice("Specific", "get_weather"), ToolChoice("None", "-") }

ToolCallConfigs ==
    { [tools_available |-> t, tool_choice |-> c] : t \in ToolLists, c \in ToolChoices }

Requests ==
    [ messages : MessageLists,
      system : { Some("be brief") },
      tool_config : { None } \cup { Some(c) : c \in ToolCallConfigs },
      temperature : { None },
      max_tokens : { None, Some(100) },
      stream : { TRUE } ]

(***************************************************************************)
(* The wire request                                                        *)
(***************************************************************************)
NoInput == JsonObject(<< >>)

\* GCPVertexAnthropicMessageContent::Text / ToolResult / ToolUse
WireContent(type, id, name, text, input, content) ==
    [type |-> type, id |-> id, name |-> name, text |-> text, input |-> input,
     content |-> content]
WireText(text) == WireContent("text", "-", "-", text, NoInput, << >>)
WireToolResult(tool_use_id, content) ==
    WireContent("tool_result", tool_use_id, "-", "-", NoInput, content)
WireToolUse(id, name, input) == WireContent("tool_use", id, name, "-", input, << >>)

WireMessage(role, content) == [role |-> role, content |-> content]

\* impl From<Role> for GCPVertexAnthropicRole
WireRole(role) == IF role = "user" THEN "user" ELSE "assistant"

\* impl TryFrom<&ContentBlock> for GCPVertexAnthropicMessageContent
ContentFromBlock(block) ==
    CASE block.kind = "Text" -> Ok(WireText(block.body))
      [] block.kind = "ToolCall" ->
           LET input == json_from_str(block.arguments)
           IN  IF IsErr(input)
               THEN Err(AnthropicClient(400,
                        "Error parsing tool call arguments as JSON Value"))
               ELSE IF ~is_object(input.val)
               THEN Err(AnthropicClient(400, "Tool call arguments must be a JSON object"))
               ELSE Ok(WireToolUse(block.id, block.name, input.val))
      [] OTHER -> Ok(WireToolResult(block.id, << WireText(block.body) >>))

\* .map(f).collect::<Result<Vec<_>, _>>(): the first error, or all the values
RECURSIVE CollectFrom(_, _)
CollectFrom(results, k) ==
    IF k > Len(results)
    THEN Ok(<< >>)
    ELSE IF IsErr(results[k])
    THEN results[k]
    ELSE LET rest == CollectFrom(results, k + 1)
         IN  IF IsErr(rest) THEN rest ELSE Ok(<< results[k].val >> \o rest.val)

Collect(results) == CollectFrom(results, 1)

\* impl TryFrom<&RequestMessage> for GCPVertexAnthropicMessage
MessageFromRequestMessage(inference_message) ==
    LET content ==
            Collect([i \in DOMAIN inference_message.content |->
                         ContentFromBlock(inference_message.content[i])])
    IN  IF IsErr(content)
        THEN content
        ELSE Ok(WireMessage(WireRole(inference_message.role), content.val))

(***************************************************************************)
(* The content blocks of a response                                        *)
(***************************************************************************)
\* GCPVertexAnthropicContentBlock::Text / ToolUse
ResponseBlock(type, id, name, text, input) ==
    [type |-> type, id |-> id, name |-> name, text |-> text, input |-> input]
TextBlock(text) == ResponseBlock("text", "-", "-", text, NoInput)
ToolUseBlock(id, name, input) == ResponseBlock("tool_use", id, name, "-", input)

\* impl TryFrom<GCPVertexAnthropicContentBlock> for ContentBlock
ContentBlockTryFrom(block) ==
    CASE block.type = "text" -> Ok(Text(block.text))
      [] OTHER -> Ok(ToolCall(block.id, block.name, json_to_string(block.input)))

(***************************************************************************)
(* prepare_messages                                                        *)
(***************************************************************************)
ListeningMessage == WireMessage("user", << WireText("[listening]") >>)

\* last_message.content.extend(message.content)
ExtendContentInFront(last_message, message) ==
    [last_message EXCEPT !.content = message.content \o @]

ExtendContent(last_message, message) ==
    [last_message EXCEPT !.content = @ \o message.content]

\* consolidated_messages.push(message)
PushUnlessEmpty(consolidated_messages, message) ==
    IF message.content = << >>
    THEN consolidated_messages
    ELSE Append(consolidated_messages, message)

Push(consolidated_messages, message) == Append(consolidated_messages, message)

\* the `for message in messages` loop, from message k on
RECURSIVE ConsolidateFrom(_, _, _, _)
ConsolidateFrom(messages, k, consolidated_messages, last_role) ==
    IF k > Len(messages)
    THEN Ok(consolidated_messages)
    ELSE LET message == messages[k]
             this_role == message.role
         IN  IF IsSome(last_role) /\ Unwrap(last_role) = this_role
             THEN IF consolidated_messages = << >>
                  THEN Err(InvalidRequest(
                           "Last message is missing (this should never happen)"))
                  ELSE LET n == Len(consolidated_messages)
                           last_message == consolidated_messages[n]
                           extended == ExtendContent(last_message, message)
                       IN  ConsolidateFrom(messages, k + 1,
                               Append(SubSeq(consolidated_messages, 1, n - 1), extended),
                               Some(this_role))
             ELSE ConsolidateFrom(messages, k + 1,
                      Push(consolidated_messages, message), Some(this_role))

\* match consolidated_messages.first() { Some(User) => {}, _ => insert(0, listening) }
PrependDefaultUserNever(consolidated_messages) == consolidated_messages

PrependDefaultUser(consolidated_messages) ==
    IF consolidated_messages # << >> /\ consolidated_messages[1].role = "user"
    THEN consolidated_messages
    ELSE << ListeningMessage >> \o consolidated_messages

\* if the last message is an Assistant message, push(listening)
AppendDefaultUserNever(consolidated_messages) == consolidated_messages

AppendDefaultUserAlways(consolidated_messages) ==
    Append(consolidated_messages, ListeningMessage)

AppendDefaultUser(consolidated_messages) ==
    IF /\ consolidated_messages # << >>
       /\ consolidated_messages[Len(consolidated_messages)].role = "assistant"
    THEN Append(consolidated_messages, ListeningMessage)
    ELSE consolidated_messages

prepare_messages(messages) ==
    LET consolidated == ConsolidateFrom(messages, 1, << >>, None)
    IN  IF IsErr(consolidated)
        THEN consolidated
        ELSE Ok(AppendDefaultUser(PrependDefaultUser(consolidated.val)))

(***************************************************************************)
(* Tools and tool choice                                                   *)
(***************************************************************************)
\* GCPVertexAnthropicToolChoice::Auto / Any / Tool { name }
WireToolChoice(type, name) == [type |-> type, name |-> name]

\* impl TryFrom<&ToolChoice> for GCPVertexAnthropicToolChoice
ToolChoiceTryFrom(tool_choice) ==
    CASE tool_choice.kind = "Auto" -> Ok(WireToolChoice("auto", "-"))
      [] tool_choice.kind = "Required" -> Ok(WireToolChoice("any", "-"))
      [] tool_choice.kind = "Specific" -> Ok(WireToolChoice("tool", tool_choice.name))
      [] OTHER ->
           Err(InvalidTool(
               "Tool choice is None. Anthropic does not support tool choice None."))

\* impl From<&ToolConfig> for GCPVertexAnthropicTool
WireTool(value) ==
    [name |-> value.name, description |-> Some(value.description),
     input_schema |-> value.parameters]

\* request.tool_config.as_ref().map(|c| &c.tools_available).map(|tools| ... collect())
ToolsField(tool_config) ==
    IF IsSome(tool_config)
    THEN Some([i \in DOMAIN Unwrap(tool_config).tools_available |->
                   WireTool(Unwrap(tool_config).tools_available[i])])
    ELSE None

\* tools.as_ref().filter(|t| !t.is_empty()).and(request.tool_config.as_ref())
\*      .and_then(|c| (&c.tool_choice).try_into().ok())
ToolChoiceFieldUnfiltered(tools, tool_config) ==
    IF IsSome(tools) /\ IsSome(tool_config)
    THEN LET choice == ToolChoiceTryFrom(Unwrap(tool_config).tool_choice)
         IN  IF IsOk(choice) THEN Some(choice.val) ELSE None
    ELSE None

ToolChoiceField(tools, tool_config) ==
    IF IsSome(tools) /\ Unwrap(tools) # << >> /\ IsSome(tool_config)
    THEN LET choice == ToolChoiceTryFrom(Unwrap(tool_config).tool_choice)
         IN  IF IsOk(choice) THEN Some(choice.val) ELSE None
    ELSE None

(***************************************************************************)
(* GCPVertexAnthropicRequestBody::new                                      *)
(***************************************************************************)
DefaultMaxTokens == 4096

\* request.messages.is_empty()
MessagesEmptyNever(messages) == FALSE

MessagesEmpty(messages) == messages = << >>

RequestBodyNew(req) ==
    IF MessagesEmpty(req.messages)
    THEN Err(InvalidRequest("Anthropic requires at least one message"))
    ELSE LET request_messages ==
                 Collect([i \in DOMAIN req.messages |->
                              MessageFromRequestMessage(req.messages[i])])
         IN  IF IsErr(request_messages)
             THEN request_messages
             ELSE LET messages == prepare_messages(request_messages.val)
                      tools == ToolsField(req.tool_config)
                      tool_choice == ToolChoiceField(tools, req.tool_config)
                  IN  IF IsErr(messages)
                      THEN messages
                      ELSE Ok([anthropic_version |-> "vertex-2023-10-16",
                               messages |-> messages.val,
                               max_tokens |-> IF IsSome(req.max_tokens)
                                              THEN Unwrap(req.max_tokens)
                                              ELSE DefaultMaxTokens,
                               stream |-> Some(req.stream),
                               system |-> req.system,
                               temperature |-> req.temperature,
                               tool_choice |-> tool_choice,
                               tools |-> tools])

VARIABLES
    source,             \* the events the event source delivers, in order
    pos,                \* how many of them event_source.next() has returned
    current_tool_id,    \* Option<String>
    current_tool_name,  \* Option<String>
    items,              \* the items the stream has yielded: Result<chunk, Error>
    origin,             \* origin[i]: the position in source of the event behind items[i]
    polling,            \* a stream.next() is outstanding
    last,               \* what the latest stream.next() returned: "item", "end" or "none" yet
    st,                 \* the chunk stream: "idle", "running", "ended", "dropped"
    closed,             \* event_source.close() has been called
    pulls,              \* the stream.next() calls made so far
    call,               \* infer_stream: "start", "first", "ok", "err"
    first,              \* the chunk infer_stream returned
    error,              \* the error infer_stream returned
    request,            \* the ModelInferenceRequest of the call
    built,              \* what GCPVertexAnthropicRequestBody::new returned for it
    wire_messages,      \* prepare_messages: its argument
    prepared,           \* prepare_messages: its result
    response_code,      \* handle_anthropic_error: the status code
    response_body,      \* handle_anthropic_error: the error body
    classified,         \* handle_anthropic_error: its result
    tool_call,          \* a neutral ToolCall block
    tool_use,           \* the wire ToolUse block of the same call
    to_wire,            \* the wire content built from tool_call
    from_wire,          \* the neutral block decoded from tool_use
    pair_source,        \* two concurrent streams: the event source of each
    pair_pos,           \* ... how many events each has read
    pair_tool_id,       \* ... the current_tool_id slots
    pair_tool_name,     \* ... the current_tool_name slots
    pair_items,         \* ... the items each has yielded
    pair_ended,         \* ... whether each has left its loop
    method,             \* one call of the provider: "infer" or "infer_stream"
    credentials,        \* ... self.credentials: Option<GCPCredentials>
    pc,                 \* ... where the call is
    token_requests,     \* ... the get_jwt_token calls made
    posts,              \* ... the POST requests sent
    opens,              \* ... the event sources opened
    transport,          \* ... what the transport answered
    result              \* ... what the call returned

streamVars ==
    << source, pos, current_tool_id, current_tool_name, items, origin, polling, last,
       st, closed, pulls, call, first, error >>
reqVars == << request, built >>
prepVars == << wire_messages, prepared >>
errVars == << response_code, response_body, classified >>
jsonVars == << tool_call, tool_use, to_wire, from_wire >>
pairVars ==
    << pair_source, pair_pos, pair_tool_id, pair_tool_name, pair_items, pair_ended >>

callVars ==
    << method, credentials, pc, token_requests, posts, opens, transport, result >>

\* the variables of the specifications of single functions, of the stream pair and
\* of the whole call
pureVars == << prepVars, errVars, jsonVars, pairVars, callVars >>

vars == << streamVars, reqVars, pureVars >>

(***************************************************************************)
(* anthropic_to_tensorzero_stream_message                                  *)
(* Each arm gives the function's result and the two slots after the call.  *)
(***************************************************************************)
Handled(res, tool_id, tool_name) ==
    [res |-> res, tool_id |-> tool_id, tool_name |-> tool_name]

\* parse_usage_info: a count that is missing or not a u64 is 0; the counts of the
\* events are below 2^32, where `as u32` changes nothing
parse_usage_info_swapped(usage_info) ==
    [input_tokens |-> IF IsSome(usage_info.output_tokens)
                      THEN Unwrap(usage_info.output_tokens) ELSE 0,
     output_tokens |-> IF IsSome(usage_info.input_tokens)
                       THEN Unwrap(usage_info.input_tokens) ELSE 0]

parse_usage_info(usage_info) ==
    [input_tokens |-> IF IsSome(usage_info.input_tokens)
                      THEN Unwrap(usage_info.input_tokens) ELSE 0,
     output_tokens |-> IF IsSome(usage_info.output_tokens)
                       THEN Unwrap(usage_info.output_tokens) ELSE 0]

\* ContentBlockDelta { delta: InputJsonDelta { partial_json }, .. }
InputJsonDeltaArmDefaulted(message, tool_id, tool_name) ==
    Handled(Ok(Some(Chunk(
                << ToolCallChunk(IF IsSome(tool_id) THEN Unwrap(tool_id) ELSE "",
                                 IF IsSome(tool_name) THEN Unwrap(tool_name) ELSE "",
                                 message.payload) >>,
                None, message))),
            tool_id, tool_name)

InputJsonDeltaArm(message, tool_id, tool_name) ==
    IF ~IsSome(tool_name)
    THEN Handled(Err(AnthropicServer(
             "Got InputJsonDelta chunk from Anthropic without current tool name being set by a ToolUse")),
             tool_id, tool_name)
    ELSE IF ~IsSome(tool_id)
    THEN Handled(Err(AnthropicServer(
             "Got InputJsonDelta chunk from Anthropic without current tool id being set by a ToolUse")),
             tool_id, tool_name)
    ELSE Handled(Ok(Some(Chunk(
             << ToolCallChunk(Unwrap(tool_id), Unwrap(tool_name), message.payload) >>,
             None, message))),
             tool_id, tool_name)

\* ContentBlockStart { content_block: ToolUse { id, name, .. }, .. }
ToolUseArmKeepsName(message, tool_id, tool_name) ==
    Handled(Ok(Some(Chunk(<< ToolCallChunk(message.id, message.name, "") >>, None, message))),
            Some(message.id),
            IF IsSome(tool_name) THEN tool_name ELSE Some(message.name))

ToolUseArmIdOnly(message, tool_id, tool_name) ==
    Handled(Ok(Some(Chunk(<< ToolCallChunk(message.id, message.name, "") >>, None, message))),
            Some(message.id), tool_name)

ToolUseArm(message, tool_id, tool_name) ==
    Handled(Ok(Some(Chunk(<< ToolCallChunk(message.id, message.name, "") >>, None, message))),
            Some(message.id), Some(message.name))

\* ContentBlockStop { .. } => Ok(None)
ContentBlockStopArmClears(message, tool_id, tool_name) == Handled(Ok(None), None, None)

ContentBlockStopArm(message, tool_id, tool_name) == Handled(Ok(None), tool_id, tool_name)

anthropic_to_tensorzero_stream_message(message, tool_id, tool_name) ==
    CASE message.type = "content_block_delta" ->
           CASE message.block = "text_delta" ->
                  Handled(Ok(Some(Chunk(
                      << TextChunk(IndexToString(message.index), message.payload) >>,
                      None, message))), tool_id, tool_name)
             [] message.block = "input_json_delta" ->
                  InputJsonDeltaArm(message, tool_id, tool_name)
             [] OTHER ->
                  Handled(Err(AnthropicServer(
                      "Unsupported content block type for ContentBlockDelta")),
                      tool_id, tool_name)
      [] message.type = "content_block_start" ->
           CASE message.block = "text" ->
                  Handled(Ok(Some(Chunk(
                      << TextChunk(IndexToString(message.index), message.payload) >>,
                      None, message))), tool_id, tool_name)
             [] message.block = "tool_use" ->
                  ToolUseArm(message, tool_id, tool_name)
             [] OTHER ->
                  Handled(Err(AnthropicServer(
                      "Unsupported content block type for ContentBlockStart")),
                      tool_id, tool_name)
      [] message.type = "content_block_stop" ->
           ContentBlockStopArm(message, tool_id, tool_name)
      [] message.type = "error" ->
           Handled(Err(AnthropicServer(message.payload)), tool_id, tool_name)
      [] message.type = "message_delta" ->
           Handled(Ok(Some(Chunk(<< >>, Some(parse_usage_info(message.usage)), message))),
                   tool_id, tool_name)
      [] message.type = "message_start" ->
           IF message.usage.present
           THEN Handled(Ok(Some(Chunk(<< >>, Some(parse_usage_info(message.usage)),
                                      message))), tool_id, tool_name)
           ELSE Handled(Ok(None), tool_id, tool_name)
      [] OTHER -> Handled(Ok(None), tool_id, tool_name)   \* MessageStop | Ping

(***************************************************************************)
(* stream_anthropic: one turn of the `while let Some(ev)` loop             *)
(***************************************************************************)
\* serde_json::from_str::<GCPVertexAnthropicStreamMessage>(&message.data)
ParseStreamMessage(data) ==
    IF /\ data.type \in StreamMessageTypes
       /\ data.type \in {"content_block_delta", "content_block_start"}
            => data.block \in MessageBlockTypes
    THEN Ok(data)
    ELSE Err(AnthropicServer("Error parsing message"))

\* if let Ok(MessageStop) = data { break; }
IsMessageStopNever(data) == FALSE

IsMessageStopOrError(data) == IsOk(data) /\ data.val.type \in {"message_stop", "error"}

IsMessageStop(data) == IsOk(data) /\ data.val.type = "message_stop"

\* match response { Ok(None) => {}, Ok(Some(m)) => yield Ok(m), Err(e) => yield Err(e) }
Step(act, item, tool_id, tool_name) ==
    [act |-> act, item |-> item, tool_id |-> tool_id, tool_name |-> tool_name]

YieldResponseSwallowsErrors(h) ==
    IF IsErr(h.res) \/ ~IsSome(h.res.val)
    THEN Step("continue", None, h.tool_id, h.tool_name)
    ELSE Step("yield", Some(Ok(Unwrap(h.res.val))), h.tool_id, h.tool_name)

YieldResponseEndsOnNone(h) ==
    IF IsErr(h.res)
    THEN Step("yield", Some(h.res), h.tool_id, h.tool_name)
    ELSE IF IsSome(h.res.val)
    THEN Step("yield", Some(Ok(Unwrap(h.res.val))), h.tool_id, h.tool_name)
    ELSE Step("break", None, h.tool_id, h.tool_name)

YieldResponse(h) ==
    IF IsErr(h.res)
    THEN Step("yield", Some(h.res), h.tool_id, h.tool_name)
    ELSE IF IsSome(h.res.val)
    THEN Step("yield", Some(Ok(Unwrap(h.res.val))), h.tool_id, h.tool_name)
    ELSE Step("continue", None, h.tool_id, h.tool_name)

\* The body of the loop for one event: what it does (yield, continue, break),
\* the item it yields, and the slots afterwards.
LoopBody(ev, tool_id, tool_name) ==
    CASE ev.ev = "error" ->
           Step("yield", Some(Err(AnthropicServer("transport error"))), tool_id, tool_name)
      [] ev.ev = "open" -> Step("continue", None, tool_id, tool_name)
      [] OTHER ->
           LET data == ParseStreamMessage(ev)
           IN  IF IsMessageStop(data)
               THEN Step("break", None, tool_id, tool_name)
               ELSE IF IsErr(data)
               THEN YieldResponse(Handled(data, tool_id, tool_name))
               ELSE YieldResponse(
                        anthropic_to_tensorzero_stream_message(data.val, tool_id, tool_name))

(***************************************************************************)
(* One streaming call                                                      *)
(***************************************************************************)
NoChunk == None

\* the request of the streaming call: its part is over once the event source is open
StreamingRequest ==
    [messages |-> << RequestMessage("user", << Text("hi") >>) >>, system |-> Some("be brief"),
     tool_config |-> None, temperature |-> None, max_tokens |-> None, stream |-> TRUE]
NoError == None

\* The parts of the state a specification does not use stay as they are here.
PrepIdle == wire_messages = << >> /\ prepared = None
ErrIdle == response_code = 0 /\ response_body = None /\ classified = None
JsonIdle == tool_call = None /\ tool_use = None /\ to_wire = None /\ from_wire = None
PairIdle ==
    /\ pair_source = << >>
    /\ pair_pos = << >>
    /\ pair_tool_id = << >>
    /\ pair_tool_name = << >>
    /\ pair_items = << >>
    /\ pair_ended = << >>
CallIdle ==
    /\ method = "-"
    /\ credentials = None
    /\ pc = "-"
    /\ token_requests = 0
    /\ posts = 0
    /\ opens = 0
    /\ transport = None
    /\ result = None
PureIdle == PrepIdle /\ ErrIdle /\ JsonIdle /\ PairIdle /\ CallIdle

\* the state infer_stream starts in, whatever the event source will deliver
CallStart ==
    /\ pos = 0
    /\ current_tool_id = None
    /\ current_tool_name = None
    /\ items = << >>
    /\ origin = << >>
    /\ polling = FALSE
    /\ last = "none"
    /\ st = "idle"
    /\ closed = FALSE
    /\ pulls = 0
    /\ call = "start"
    /\ first = NoChunk
    /\ error = NoError
    /\ request = StreamingRequest
    /\ built = None
    /\ PureIdle

Init == source \in EventSources /\ CallStart

\* infer_stream up to its stream.next().await: the event source is opened, the
\* stream is created with both slots unset, and the first item is asked for.
OpenStream ==
    /\ call = "start"
    /\ call' = "first"
    /\ st' = "running"
    /\ polling' = TRUE
    /\ pulls' = pulls + 1
    /\ UNCHANGED << source, pos, current_tool_id, current_tool_name, items, origin, last,
                    closed, first, error, request, built, pureVars >>

\* The body of async_stream::stream! runs only inside a stream.next() call of
\* its consumer, and is suspended at the yield that answers the call.
GeneratorRunsUnpolled == TRUE

GeneratorRuns == polling

\* event_source.next() returns Some(ev): one turn of the loop.
ReadEvent ==
    /\ st = "running"
    /\ GeneratorRuns
    /\ pos < Len(source)
    /\ LET step == LoopBody(source[pos + 1], current_tool_id, current_tool_name)
       IN  /\ pos' = pos + 1
           /\ current_tool_id' = step.tool_id
           /\ current_tool_name' = step.tool_name
           /\ CASE step.act = "yield" ->
                     /\ items' = Append(items, Unwrap(step.item))
                     /\ origin' = Append(origin, pos + 1)
                     /\ polling' = FALSE
                     /\ last' = "item"
                     /\ UNCHANGED << st, closed >>
                [] step.act = "continue" ->
                     UNCHANGED << items, origin, polling, last, st, closed >>
                [] OTHER ->   \* break, then event_source.close() and the stream is over
                     /\ st' = "ended"
                     /\ closed' = TRUE
                     /\ polling' = FALSE
                     /\ last' = "end"
                     /\ UNCHANGED << items, origin >>
    /\ UNCHANGED << source, pulls, call, first, error, request, built, pureVars >>

\* event_source.next() returns None: the loop is left, event_source.close().
SourceEndLeavesOpen ==
    /\ st = "running"
    /\ GeneratorRuns
    /\ pos = Len(source)
    /\ st' = "ended"
    /\ polling' = FALSE
    /\ last' = "end"
    /\ UNCHANGED << source, pos, current_tool_id, current_tool_name, items, origin, pulls,
                    closed, call, first, error, request, built, pureVars >>

SourceEnd ==
    /\ st = "running"
    /\ GeneratorRuns
    /\ pos = Len(source)
    /\ st' = "ended"
    /\ closed' = TRUE
    /\ polling' = FALSE
    /\ last' = "end"
    /\ UNCHANGED << source, pos, current_tool_id, current_tool_name, items, origin, pulls,
                    call, first, error, request, built, pureVars >>

\* infer_stream's match on the first stream.next(): what the call returns.
FirstOutcomeEmptyOk(latest, yielded) ==
    IF latest = "item" /\ IsErr(yielded[Len(yielded)])
    THEN [call |-> "err", first |-> NoChunk, error |-> Some(yielded[Len(yielded)].val)]
    ELSE IF latest = "item"
    THEN [call |-> "ok", first |-> Some(yielded[Len(yielded)].val), error |-> NoError]
    ELSE [call |-> "ok", first |-> NoChunk, error |-> NoError]

FirstOutcomeErrorOk(latest, yielded) ==
    IF latest = "item" /\ IsOk(yielded[Len(yielded)])
    THEN [call |-> "ok", first |-> Some(yielded[Len(yielded)].val), error |-> NoError]
    ELSE IF latest = "item"
    THEN [call |-> "ok", first |-> NoChunk, error |-> NoError]
    ELSE [call |-> "err", first |-> NoChunk,
          error |-> Some(AnthropicServer("Stream ended before first chunk"))]

FirstOutcome(latest, yielded) ==
    IF latest = "item" /\ IsOk(yielded[Len(yielded)])
    THEN [call |-> "ok", first |-> Some(yielded[Len(yielded)].val), error |-> NoError]
    ELSE IF latest = "item"
    THEN [call |-> "err", first |-> NoChunk, error |-> Some(yielded[Len(yielded)].val)]
    ELSE [call |-> "err", first |-> NoChunk,
          error |-> Some(AnthropicServer("Stream ended before first chunk"))]

\* The first stream.next() has returned: infer_stream returns (chunk, stream), or
\* an error, the stream being dropped with it.
FirstItem ==
    /\ call = "first"
    /\ ~polling
    /\ LET out == FirstOutcome(last, items)
       IN  /\ call' = out.call
           /\ first' = out.first
           /\ error' = out.error
           /\ st' = IF out.call = "err" /\ st = "running" THEN "dropped" ELSE st
    /\ UNCHANGED << source, pos, current_tool_id, current_tool_name, items, origin,
                    polling, last, closed, pulls, request, built,
                    pureVars >>

\* The caller asks the returned stream for its next item.
Pull ==
    /\ call = "ok"
    /\ st = "running"
    /\ ~polling
    /\ polling' = TRUE
    /\ pulls' = pulls + 1
    /\ UNCHANGED << source, pos, current_tool_id, current_tool_name, items, origin, last,
                    st, closed, call, first, error, request, built, pureVars >>

\* The caller drops the returned stream before its end.
Drop ==
    /\ call = "ok"
    /\ st = "running"
    /\ st' = "dropped"
    /\ polling' = FALSE
    /\ UNCHANGED << source, pos, current_tool_id, current_tool_name, items, origin, last,
                    closed, pulls, call, first, error, request, built, pureVars >>

Next == OpenStream \/ ReadEvent \/ SourceEnd \/ FirstItem \/ Pull \/ Drop

Spec == Init /\ [][Next]_vars

(***************************************************************************)
(* Request construction on its own                                         *)
(***************************************************************************)
StreamIdle ==
    /\ source = << >>
    /\ pos = 0
    /\ current_tool_id = None
    /\ current_tool_name = None
    /\ items = << >>
    /\ origin = << >>
    /\ polling = FALSE
    /\ last = "none"
    /\ st = "idle"
    /\ closed = FALSE
    /\ pulls = 0
    /\ call = "start"
    /\ first = NoChunk
    /\ error = NoError
ReqIdle == request = StreamingRequest /\ built = None

InitReq ==
    /\ request \in Requests
    /\ built = None
    /\ StreamIdle
    /\ PureIdle

\* GCPVertexAnthropicRequestBody::new(request)
BuildRequest ==
    /\ built = None
    /\ built' = Some(RequestBodyNew(request))
    /\ UNCHANGED << source, pos, current_tool_id, current_tool_name, items, origin,
                    polling, last, st, closed, pulls, call, first, error, request,
                    pureVars >>

NextReq == BuildRequest

SpecReq == InitReq /\ [][NextReq]_vars

(***************************************************************************)
(* prepare_messages on its own                                             *)
(***************************************************************************)
\* the contents a wire message is drawn from
WireContents ==
    { << WireText("a") >>,
      << WireText("b"), WireToolUse("c1", "get_weather", NoInput) >>,
      << WireToolResult("c0", << WireText("sunny") >>) >>,
      << >> }
WireMessages == { WireMessage(r, c) : r \in Roles, c \in WireContents }
WireMessageLists == UNION { [1..n -> WireMessages] : n \in 0..MaxMessages }

InitPrep ==
    /\ wire_messages \in WireMessageLists
    /\ prepared = None
    /\ StreamIdle
    /\ CallIdle
    /\ ReqIdle
    /\ ErrIdle
    /\ JsonIdle
    /\ PairIdle

\* prepare_messages(messages)
PrepareMessages ==
    /\ prepared = None
    /\ prepared' = Some(prepare_messages(wire_messages))
    /\ UNCHANGED << callVars, streamVars, reqVars, wire_messages, errVars, jsonVars, pairVars >>

NextPrep == PrepareMessages

SpecPrep == InitPrep /\ [][NextPrep]_vars

(***************************************************************************)
(* handle_anthropic_error on its own                                       *)
(***************************************************************************)
\* http::StatusCode
UNAUTHORIZED == 401
BAD_REQUEST == 400
PAYLOAD_TOO_LARGE == 413
TOO_MANY_REQUESTS == 429
StatusCodes == 100..599

\* GCPVertexAnthropicErrorBody { type, message }
ErrorBody(type, message) == [type |-> type, message |-> message]
ErrorBodies ==
    { ErrorBody("invalid_request_error", "max_tokens: field required"),
      ErrorBody("overloaded_error", "Overloaded"),
      ErrorBody("error", "") }

\* every 4xx status taken for the caller's fault
handle_anthropic_error_4xx(code, body) ==
    IF code \in 400..499
    THEN Err(AnthropicClient(code, body.message))
    ELSE Err(AnthropicServer(body.message))

handle_anthropic_error(code, body) ==
    IF code \in { UNAUTHORIZED, BAD_REQUEST, PAYLOAD_TOO_LARGE, TOO_MANY_REQUESTS }
    THEN Err(AnthropicClient(code, body.message))
    ELSE Err(AnthropicServer(body.message))

InitErr ==
    /\ response_code \in StatusCodes
    /\ response_body \in ErrorBodies
    /\ classified = None
    /\ StreamIdle
    /\ CallIdle
    /\ ReqIdle
    /\ PrepIdle
    /\ JsonIdle
    /\ PairIdle

\* handle_anthropic_error(response_code, error_body.error)
HandleError ==
    /\ classified = None
    /\ classified' = Some(handle_anthropic_error(response_code, response_body))
    /\ UNCHANGED << callVars, streamVars, reqVars, prepVars, response_code, response_body,
                    jsonVars, pairVars >>

NextErr == HandleError

SpecErr == InitErr /\ [][NextErr]_vars

(***************************************************************************)
(* The two conversions of a tool call on their own                         *)
(***************************************************************************)
Keys == { KeyNames[i] : i \in 1..MaxKeys }

\* the values of the members of an object
MemberValues ==
    { JsonNumber("1"), JsonString("x"), JsonLiteral("true"), JsonLiteral("null"),
      JsonArray(<< JsonNumber("1"), JsonString("x") >>), JsonObject(<< >>),
      JsonObject(<< << "b", JsonNumber("2") >> >>) }

\* the object with the members f, f being a function from keys to values
ObjectOf(f) ==
    LET present == SelectSeq(KeyNames, LAMBDA key : key \in DOMAIN f)
    IN  JsonObject([i \in DOMAIN present |-> << present[i], f[present[i]] >>])
JsonObjects ==
    { ObjectOf(f) : f \in UNION { [K -> MemberValues] : K \in SUBSET Keys } }

ToolCallIds == { "tool_call_1", "tool_call_2" }
ToolNames == { "get_temperature", "get_weather" }

\* a ToolUse block with a JSON object as its input, and a ToolCall of the same
\* id and name whose arguments are a text of that object
InitJson ==
    /\ \E input \in JsonObjects, id \in ToolCallIds, name \in ToolNames :
           /\ tool_use = Some(ToolUseBlock(id, name, input))
           /\ \E space \in { << >>, << Ws >> } :
                  tool_call = Some(ToolCall(id, name, Serialize(input, space)))
    /\ to_wire = None
    /\ from_wire = None
    /\ StreamIdle
    /\ CallIdle
    /\ ReqIdle
    /\ PrepIdle
    /\ ErrIdle
    /\ PairIdle

\* GCPVertexAnthropicMessageContent::try_from(&block)
BuildToolUse ==
    /\ to_wire = None
    /\ to_wire' = Some(ContentFromBlock(Unwrap(tool_call)))
    /\ UNCHANGED << callVars, streamVars, reqVars, prepVars, errVars, tool_call, tool_use,
                    from_wire, pairVars >>

\* ContentBlock::try_from(block)
DecodeToolUse ==
    /\ from_wire = None
    /\ from_wire' = Some(ContentBlockTryFrom(Unwrap(tool_use)))
    /\ UNCHANGED << callVars, streamVars, reqVars, prepVars, errVars, tool_call, tool_use,
                    to_wire, pairVars >>

NextJson == BuildToolUse \/ DecodeToolUse

SpecJson == InitJson /\ [][NextJson]_vars

(***************************************************************************)
(* Two calls of stream_anthropic whose loops take turns in any order       *)
(***************************************************************************)
Streams == {1, 2}
PairEvents == { StartTool("t1", "n1"), StartTool("t2", "n2"), DeltaJson, MessageStop }
PairEventSources == UNION { [1..n -> PairEvents] : n \in 0..MaxPairEvents }

\* `let mut current_tool_id` and `let mut current_tool_name` are locals of the
\* stream! block: each call of stream_anthropic has slots of its own.
SlotsOfFirst(s) == 1

SlotsOf(s) == s

InitPair ==
    /\ pair_source \in [Streams -> PairEventSources]
    /\ pair_pos = [s \in Streams |-> 0]
    /\ pair_tool_id = [s \in Streams |-> None]
    /\ pair_tool_name = [s \in Streams |-> None]
    /\ pair_items = [s \in Streams |-> << >>]
    /\ pair_ended = [s \in Streams |-> FALSE]
    /\ StreamIdle
    /\ CallIdle
    /\ ReqIdle
    /\ PrepIdle
    /\ ErrIdle
    /\ JsonIdle

\* one turn of the loop of stream s
ReadEventOf(s) ==
    /\ ~pair_ended[s]
    /\ pair_pos[s] < Len(pair_source[s])
    /\ LET slots == SlotsOf(s)
           step == LoopBody(pair_source[s][pair_pos[s] + 1],
                            pair_tool_id[slots], pair_tool_name[slots])
       IN  /\ pair_pos' = [pair_pos EXCEPT ![s] = @ + 1]
           /\ pair_tool_id' = [pair_tool_id EXCEPT ![slots] = step.tool_id]
           /\ pair_tool_name' = [pair_tool_name EXCEPT ![slots] = step.tool_name]
           /\ pair_items' = IF step.act = "yield"
                            THEN [pair_items EXCEPT ![s] = Append(@, Unwrap(step.item))]
                            ELSE pair_items
           /\ pair_ended' = IF step.act = "break"
                            THEN [pair_ended EXCEPT ![s] = TRUE]
                            ELSE pair_ended
    /\ UNCHANGED << callVars, streamVars, reqVars, prepVars, errVars, jsonVars, pair_source >>

\* the event source of stream s returns None
SourceEndOf(s) ==
    /\ ~pair_ended[s]
    /\ pair_pos[s] = Len(pair_source[s])
    /\ pair_ended' = [pair_ended EXCEPT ![s] = TRUE]
    /\ UNCHANGED << callVars, streamVars, reqVars, prepVars, errVars, jsonVars, pair_source,
                    pair_pos, pair_tool_id, pair_tool_name, pair_items >>

NextPair == \E s \in Streams : ReadEventOf(s) \/ SourceEndOf(s)

SpecPair == InitPair /\ [][NextPair]_vars

(***************************************************************************)
(* The whole chunk sequence of an event source: stream_anthropic drained   *)
(* to its end, as the fold of the loop body over the events.               *)
(***************************************************************************)
RECURSIVE DecodeFrom(_, _, _, _)
DecodeFrom(evs, k, tool_id, tool_name) ==
    IF k > Len(evs)
    THEN << >>
    ELSE LET step == LoopBody(evs[k], tool_id, tool_name)
         IN  CASE step.act = "yield" ->
                    << Unwrap(step.item) >>
                        \o DecodeFrom(evs, k + 1, step.tool_id, step.tool_name)
               [] step.act = "continue" ->
                    DecodeFrom(evs, k + 1, step.tool_id, step.tool_name)
               [] OTHER -> << >>

Decode(evs) == DecodeFrom(evs, 1, None, None)

(***************************************************************************)
(* One call of the provider, infer or infer_stream, with its credentials,  *)
(* its token and its transport                                             *)
(***************************************************************************)
\* Error::ApiKeyMissing { provider_name }
ApiKeyMissing(provider_name) ==
    [err |-> "ApiKeyMissing", status |-> 0, message |-> provider_name]
\* Error::InferenceClient { message }
InferenceClient(m) == [err |-> "InferenceClient", status |-> 0, message |-> m]
\* the error of a get_jwt_token that fails
JwtError == [err |-> "GCPCredentials", status |-> 0, message |-> "no token"]

\* self.credentials.as_ref().ok_or(Error::ApiKeyMissing { .. })
RequireCredentialsLenient(configured) == Ok("anonymous")

RequireCredentials(configured) ==
    IF IsSome(configured)
    THEN Ok(Unwrap(configured))
    ELSE Err(ApiKeyMissing("GCP Vertex Anthropic"))

\* the body of an HTTP response, by what it can be read as: nothing at all,
\* text that is neither payload, the error payload, the response payload, or a
\* JSON object with the fields of both
ResponseBody(kind, error_body, content) ==
    [kind |-> kind, error |-> error_body, content |-> content]
ResponseBodies ==
    { ResponseBody("unreadable", ErrorBody("-", "-"), << >>),
      ResponseBody("garbage", ErrorBody("-", "-"), << >>),
      ResponseBody("error", ErrorBody("invalid_request_error", "bad request"), << >>),
      ResponseBody("response", ErrorBody("-", "-"),
                   << TextBlock("Hello"),
                      ToolUseBlock("tool_call_1", "get_temperature", NoInput) >>),
      ResponseBody("both", ErrorBody("overloaded_error", "Overloaded"),
                   << TextBlock("Hello") >>) }

\* what the transport answers a POST with
HttpResponse(status, body) == [status |-> status, body |-> body]
ResponseStatuses == { 200, 201, 400, 401, 403, 404, 413, 429, 500, 529 }
HttpResponses == { HttpResponse(c, b) : c \in ResponseStatuses, b \in ResponseBodies }

\* res.status().is_success()
is_success(status) == status \in 200..299

\* res.text().await, then serde_json::from_str::<GCPVertexAnthropicResponse>
ParseResponse(body) ==
    IF body.kind = "unreadable"
    THEN Err(AnthropicServer("Error parsing text response"))
    ELSE IF body.kind \in { "response", "both" }
    THEN Ok(body.content)
    ELSE Err(AnthropicServer("Error parsing JSON response"))

\* res.json::<GCPVertexAnthropicError>().await
ParseErrorBodyOrDefault(body) ==
    IF body.kind \in { "error", "both" }
    THEN Ok(body.error)
    ELSE Ok(ErrorBody("error", "unknown error"))

ParseErrorBody(body) ==
    IF body.kind \in { "error", "both" }
    THEN Ok(body.error)
    ELSE Err(AnthropicServer("Error parsing response"))

\* impl TryFrom<GCPVertexAnthropicResponseWithLatency> for ProviderInferenceResponse
ResponseTryFrom(response) ==
    LET content == Collect([i \in DOMAIN response |-> ContentBlockTryFrom(response[i])])
    IN  IF IsErr(content)
        THEN content
        ELSE Ok([content |-> content.val, raw_response |-> response])

\* infer from `if res.status().is_success()` on
InferResult(res) ==
    IF is_success(res.status)
    THEN LET response == ParseResponse(res.body)
         IN  IF IsErr(response) THEN response ELSE ResponseTryFrom(response.val)
    ELSE LET error_body == ParseErrorBody(res.body)
         IN  IF IsErr(error_body)
             THEN error_body
             ELSE handle_anthropic_error(res.status, error_body.val)

\* the requests of a call: no message or one
CallRequests ==
    [ messages : { << >> } \cup { << m >> : m \in RequestMessages },
      system : { Some("be brief") },
      tool_config : { None },
      temperature : { None },
      max_tokens : { None },
      stream : { TRUE } ]

\* what the event source of a call delivers up to the first item
CallEventSources ==
    { << >>, << MessageStop >>, << OpenEvent, DeltaText >>, << Ping, ErrorEvent >>,
      << TransportError >>, << Garbage >>, << OpenEvent, Ping >>,
      << StartTool("t1", "n1"), MessageStop >> }

InitCall ==
    /\ method \in { "infer", "infer_stream" }
    /\ credentials \in { None, Some("service-account") }
    /\ request \in CallRequests
    /\ built = None
    /\ pc = "start"
    /\ token_requests = 0
    /\ posts = 0
    /\ opens = 0
    /\ transport = None
    /\ result = None
    /\ StreamIdle
    /\ PrepIdle
    /\ ErrIdle
    /\ JsonIdle
    /\ PairIdle

\* the call returns with an error: `?` or `return Err(..)`
Fail(e) == pc' = "done" /\ result' = Some(Err(e))

\* the request is validated before the credentials are looked at
CheckCredentialsAfterValidation ==
    /\ pc = "start"
    /\ LET c == RequireCredentials(credentials)
           body == RequestBodyNew(request)
       IN  IF IsErr(body)
           THEN Fail(body.val)
           ELSE IF IsErr(c) THEN Fail(c.val) ELSE pc' = "validate" /\ result' = result
    /\ UNCHANGED << streamVars, reqVars, prepVars, errVars, jsonVars, pairVars, method,
                    credentials, token_requests, posts, opens, transport >>

\* let credentials = self.credentials.as_ref().ok_or(..)?
CheckCredentials ==
    /\ pc = "start"
    /\ LET c == RequireCredentials(credentials)
       IN  IF IsErr(c) THEN Fail(c.val) ELSE pc' = "validate" /\ result' = result
    /\ UNCHANGED << streamVars, reqVars, prepVars, errVars, jsonVars, pairVars, method,
                    credentials, token_requests, posts, opens, transport >>

\* let request_body = GCPVertexAnthropicRequestBody::new(request)?
BuildBody ==
    /\ pc = "validate"
    /\ LET body == RequestBodyNew(request)
       IN  /\ built' = Some(body)
           /\ IF IsErr(body) THEN Fail(body.val) ELSE pc' = "token" /\ result' = result
    /\ UNCHANGED << streamVars, request, prepVars, errVars, jsonVars, pairVars, method,
                    credentials, token_requests, posts, opens, transport >>

\* let token = credentials.get_jwt_token(&self.audience)?
GetToken ==
    /\ pc = "token"
    /\ token_requests' = token_requests + 1
    /\ \E token \in { Ok("jwt"), Err(JwtError) } :
           IF IsErr(token) THEN Fail(token.val) ELSE pc' = "send" /\ result' = result
    /\ UNCHANGED << streamVars, reqVars, prepVars, errVars, jsonVars, pairVars, method,
                    credentials, posts, opens, transport >>

\* http_client.post(..).send().await.map_err(..)?, and the send error is tried again
PostWithRetry ==
    /\ pc = "send"
    /\ method = "infer"
    /\ posts' = posts + 1
    /\ \E sent \in { Err(InferenceClient("Error sending request")) }
                       \cup { Ok(res) : res \in HttpResponses } :
           IF IsErr(sent)
           THEN UNCHANGED << pc, result, transport >>
           ELSE pc' = "response" /\ result' = result /\ transport' = Some(sent.val)
    /\ UNCHANGED << streamVars, reqVars, prepVars, errVars, jsonVars, pairVars, method,
                    credentials, token_requests, opens >>

\* http_client.post(&self.request_url)...send().await.map_err(..)?
Post ==
    /\ pc = "send"
    /\ method = "infer"
    /\ posts' = posts + 1
    /\ \E sent \in { Err(InferenceClient("Error sending request")) }
                       \cup { Ok(res) : res \in HttpResponses } :
           IF IsErr(sent)
           THEN Fail(sent.val) /\ transport' = transport
           ELSE pc' = "response" /\ result' = result /\ transport' = Some(sent.val)
    /\ UNCHANGED << streamVars, reqVars, prepVars, errVars, jsonVars, pairVars, method,
                    credentials, token_requests, opens >>

\* infer from `if res.status().is_success()` to its end
HandleResponse ==
    /\ pc = "response"
    /\ pc' = "done"
    /\ result' = Some(InferResult(Unwrap(transport)))
    /\ UNCHANGED << streamVars, reqVars, prepVars, errVars, jsonVars, pairVars, method,
                    credentials, token_requests, posts, opens, transport >>

\* http_client.post(&self.streaming_request_url)...eventsource().map_err(..)?
OpenEventSource ==
    /\ pc = "send"
    /\ method = "infer_stream"
    /\ \E opened \in { Ok("event_source"),
                       Err(InferenceClient("Error sending request to Anthropic")) } :
           IF IsErr(opened)
           THEN Fail(opened.val) /\ opens' = opens
           ELSE pc' = "first" /\ result' = result /\ opens' = opens + 1
    /\ UNCHANGED << streamVars, reqVars, prepVars, errVars, jsonVars, pairVars, method,
                    credentials, token_requests, posts, transport >>

\* let chunk = match stream.next().await { .. }; Ok((chunk, stream))
FirstOfStream ==
    /\ pc = "first"
    /\ pc' = "done"
    /\ \E evs \in CallEventSources :
           LET yielded == Decode(evs)
               out == IF yielded = << >>
                      THEN FirstOutcome("end", yielded)
                      ELSE FirstOutcome("item", << yielded[1] >>)
           IN  result' = IF out.call = "ok"
                         THEN Some(Ok(Unwrap(out.first)))
                         ELSE Some(Err(Unwrap(out.error)))
    /\ UNCHANGED << streamVars, reqVars, prepVars, errVars, jsonVars, pairVars, method,
                    credentials, token_requests, posts, opens, transport >>

NextCall ==
    \/ CheckCredentials
    \/ BuildBody
    \/ GetToken
    \/ Post
    \/ HandleResponse
    \/ OpenEventSource
    \/ FirstOfStream

SpecCall == InitCall /\ [][NextCall]_vars


(***************************************************************************)
(* Vocabulary of the properties: what the protocol says about an event,    *)
(* stated on the event source alone.                                       *)
(***************************************************************************)
IsToolStart(e) ==
    e.ev = "message" /\ e.type = "content_block_start" /\ e.block = "tool_use"

\* the positions up to k of the tool-call-start events
ToolStartsUpTo(k) == { j \in 1..k : IsToolStart(source[j]) }
MaxOf(S) == CHOOSE x \in S : \A y \in S : y <= x

\* the events whose decoding fails
IsFailure(j) ==
    \/ source[j] \in { TransportError, Garbage, StartBad, DeltaBad, ErrorEvent }
    \/ source[j] = DeltaJson /\ ToolStartsUpTo(j - 1) = {}

\* the events that decode to a chunk
IsChunkEvent(j) ==
    \/ source[j] \in { StartText, DeltaText, MessageDelta, MessageStartUsage }
    \/ IsToolStart(source[j])
    \/ source[j] = DeltaJson /\ ToolStartsUpTo(j - 1) # {}

RemoveAt(seq, i) == SubSeq(seq, 1, i - 1) \o SubSeq(seq, i + 1, Len(seq))

ToolCallsOf(item) ==
    IF IsOk(item)
    THEN { item.val.content[b] : b \in { x \in DOMAIN item.val.content :
                                            item.val.content[x].kind = "ToolCall" } }
    ELSE {}

(***************************************************************************)
(* Properties of the streaming call                                        *)
(***************************************************************************)

\* C1: every ToolCall chunk the stream yields carries the id and the name of the
\* latest tool-call-start event at or before the event it comes from; no ToolCall
\* chunk is yielded when there is no such event.
C1_ToolCallCarriesLatestStart ==
    \A i \in DOMAIN items :
        \A c \in ToolCallsOf(items[i]) :
            /\ ToolStartsUpTo(origin[i]) # {}
            /\ LET j == MaxOf(ToolStartsUpTo(origin[i]))
               IN  c.id = source[j].id /\ c.raw_name = source[j].name

\* a partial-arguments chunk that follows two tool-call-starts
C1_Witness ==
    \E i \in DOMAIN items :
        /\ Cardinality(ToolStartsUpTo(origin[i])) >= 2
        /\ source[origin[i]] = DeltaJson
        /\ ToolCallsOf(items[i]) # {}

\* C3: once a MessageStop has been read, the stream is over: it is the last event
\* read, no read is outstanding, and no item comes from a later event.
C3_NothingAfterMessageStop ==
    \A j \in 1..Len(source) :
        (j <= pos /\ source[j] = MessageStop) =>
            /\ pos = j
            /\ st = "ended"
            /\ ~polling
            /\ \A i \in DOMAIN origin : origin[i] < j

\* the stream ended on a MessageStop that has events after it, after a chunk
C3_Witness ==
    /\ pos > 0
    /\ pos < Len(source)
    /\ source[pos] = MessageStop
    /\ st = "ended"
    /\ Len(items) >= 1

\* C4: a partial-arguments delta read when no tool-call-start came before it
\* gives a server error item, and no ToolCall chunk.
C4_DeltaWithoutStartIsError ==
    \A j \in 1..pos :
        (source[j] = DeltaJson /\ ToolStartsUpTo(j - 1) = {}) =>
            /\ \E i \in DOMAIN items : origin[i] = j
            /\ \A i \in DOMAIN items :
                   origin[i] = j =>
                       IsErr(items[i]) /\ items[i].val.err = "AnthropicServer"

\* such a delta, read after a text block was started
C4_Witness ==
    \E j \in 2..pos :
        /\ source[j] = DeltaJson
        /\ ToolStartsUpTo(j - 1) = {}
        /\ source[j - 1] = StartText
        /\ \E i \in DOMAIN items : origin[i] = j

\* C5: an error item does not end the stream. The stream ends only at a
\* MessageStop or at the end of the event source, and the event source is closed
\* only then; the items yielded are those of the whole decoding, and taking the
\* event of an error item out of the event source takes that error item out of
\* the decoding and changes nothing else.
C5_ErrorItemDoesNotEndStream ==
    /\ (st = "ended" \/ closed) =>
           \/ pos = Len(source) /\ last = "end"
           \/ pos > 0 /\ source[pos] = MessageStop
    /\ Len(items) <= Len(Decode(source))
    /\ items = SubSeq(Decode(source), 1, Len(items))
    /\ \A i \in DOMAIN items :
           IsErr(items[i]) =>
               Decode(RemoveAt(source, origin[i])) = RemoveAt(Decode(source), i)

\* a chunk yielded after an error item
C5_Witness ==
    \E i \in DOMAIN items :
        /\ i > 1
        /\ IsErr(items[i])
        /\ i < Len(items)
        /\ IsOk(items[Len(items)])

\* C6: at most one item per event, in the order of the events; every event read
\* whose decoding fails has its error item, every event read that decodes to a
\* chunk has its chunk, and no other event has an item.
C6_ItemsFollowEvents ==
    /\ Len(origin) = Len(items)
    /\ \A i \in DOMAIN origin : origin[i] \in 1..pos
    /\ \A i, k \in DOMAIN origin : i < k => origin[i] < origin[k]
    /\ \A j \in 1..pos :
           /\ IsFailure(j) => \E i \in DOMAIN items : origin[i] = j /\ IsErr(items[i])
           /\ IsChunkEvent(j) => \E i \in DOMAIN items : origin[i] = j /\ IsOk(items[i])
           /\ (~IsFailure(j) /\ ~IsChunkEvent(j)) => \A i \in DOMAIN items : origin[i] # j

\* a chunk, an error item and a chunk, from three events in that order
C6_Witness ==
    /\ Len(items) = 3
    /\ IsOk(items[1])
    /\ IsErr(items[2])
    /\ IsOk(items[3])

\* C7: infer_stream returns a chunk stream only with a first chunk, the first
\* item yielded; when the stream is over before any item, it returns the server
\* error "Stream ended before first chunk".
C7_NoEmptyStream ==
    /\ call = "ok" =>
           /\ IsSome(first)
           /\ Len(items) >= 1
           /\ IsOk(items[1])
           /\ Unwrap(first) = items[1].val
    /\ (call \in {"ok", "err"} /\ items = << >>) =>
           /\ call = "err"
           /\ error = Some(AnthropicServer("Stream ended before first chunk"))

\* the call fails so on a MessageStop that follows an event giving no item
C7_Witness ==
    /\ call = "err"
    /\ error = Some(AnthropicServer("Stream ended before first chunk"))
    /\ pos = 2
    /\ source[pos] = MessageStop

(***************************************************************************)
(* Properties of request construction                                      *)
(***************************************************************************)
HasBuilt == IsSome(built)
BuiltOk == IsSome(built) /\ IsOk(Unwrap(built))
Body == Unwrap(built).val

\* the tools of the request's tool configuration, << >> when it has none
ToolSet == IF IsSome(request.tool_config)
           THEN Unwrap(request.tool_config).tools_available
           ELSE << >>

\* the request has a message, and the arguments of each of its tool calls are
\* the text of a JSON object
ValidArguments ==
    { << Punct("{"), Punct("}") >>,
      << Punct("{"), Str("a"), Punct(":"), Num("1"), Punct("}") >>,
      << Punct("{"), Str("a"), Punct(":"), Ws, Num("1"), Punct("}") >> }
MessagesAcceptable ==
    /\ request.messages # << >>
    /\ \A i \in DOMAIN request.messages :
           \A b \in DOMAIN request.messages[i].content :
               request.messages[i].content[b].kind = "ToolCall" =>
                   request.messages[i].content[b].arguments \in ValidArguments

\* C2: the messages of a built request body alternate roles, start with a User
\* message and do not end with an Assistant message.
C2_WireMessagesWellFormed ==
    BuiltOk =>
        LET m == Body.messages
        IN  /\ \A i \in 1..(Len(m) - 1) : m[i].role # m[i + 1].role
            /\ m # << >>
            /\ m[1].role = "user"
            /\ m[Len(m)].role # "assistant"

\* three Assistant messages, built into a placeholder, their merge, a placeholder
C2_Witness ==
    /\ BuiltOk
    /\ Len(request.messages) = 3
    /\ \A i \in DOMAIN request.messages : request.messages[i].role = "assistant"
    /\ Len(Body.messages) = 3

\* C8: with a non-empty tool set and the tool choice None, request construction
\* fails with the InvalidTool error.
C8_ToolChoiceNoneIsRejected ==
    ( /\ HasBuilt
      /\ MessagesAcceptable
      /\ ToolSet # << >>
      /\ Unwrap(request.tool_config).tool_choice.kind = "None" ) =>
        /\ IsErr(Unwrap(built))
        /\ Unwrap(built).val.err = "InvalidTool"

\* C9: the tools field of a built request body is absent when the request has no
\* tool or no tool configuration, and otherwise holds the wire descriptor of each
\* tool, in order.
C9_ToolsOnlyWhenNonEmpty ==
    BuiltOk =>
        /\ ToolSet = << >> => Body.tools = None
        /\ ToolSet # << >> =>
               /\ IsSome(Body.tools)
               /\ Len(Unwrap(Body.tools)) = Len(ToolSet)
               /\ \A i \in DOMAIN ToolSet :
                      /\ Unwrap(Body.tools)[i].name = ToolSet[i].name
                      /\ Unwrap(Body.tools)[i].input_schema = ToolSet[i].parameters

\* C10: the tool_choice field of a built request body is absent when the request
\* has no tool or no tool configuration; with tools, Auto gives auto, Required
\* gives any and Specific(name) gives tool with that name.
C10_ToolChoiceField ==
    BuiltOk =>
        /\ ToolSet = << >> => Body.tool_choice = None
        /\ ToolSet # << >> =>
               LET choice == Unwrap(request.tool_config).tool_choice
               IN  /\ choice.kind = "Auto" =>
                          Body.tool_choice = Some(WireToolChoice("auto", "-"))
                   /\ choice.kind = "Required" =>
                          Body.tool_choice = Some(WireToolChoice("any", "-"))
                   /\ choice.kind = "Specific" =>
                          Body.tool_choice = Some(WireToolChoice("tool", choice.name))

\* a tool configuration with no tool and the choice Specific, built without a
\* tool_choice field
C10_Witness ==
    /\ BuiltOk
    /\ IsSome(request.tool_config)
    /\ ToolSet = << >>
    /\ Unwrap(request.tool_config).tool_choice.kind = "Specific"
    /\ Body.tool_choice = None

(***************************************************************************)
(* Properties of prepare_messages                                          *)
(***************************************************************************)
\* the positions at which a maximal run of messages of one role starts
RunStarts(m) == { i \in 1..Len(m) : i = 1 \/ m[i].role # m[i - 1].role }
\* the position at which the run that starts at s ends
RunEnd(m, s) ==
    MaxOf({ e \in s..Len(m) : \A j \in s..e : m[j].role = m[s].role })
\* the start of the k-th run
NthRunStart(m, k) ==
    CHOOSE s \in RunStarts(m) : Cardinality({ t \in RunStarts(m) : t <= s }) = k

\* the content blocks of the messages a..b, in order
RECURSIVE ContentsOf(_, _, _)
ContentsOf(m, a, b) ==
    IF a > b THEN << >> ELSE m[a].content \o ContentsOf(m, a + 1, b)

\* one message per run, holding the run's content blocks in order
MergedRuns(m) ==
    [k \in 1..Cardinality(RunStarts(m)) |->
        LET s == NthRunStart(m, k)
        IN  WireMessage(m[s].role, ContentsOf(m, s, RunEnd(m, s)))]

Prepared == Unwrap(prepared).val
StartsWithAssistant(m) == m # << >> /\ m[1].role = "assistant"
EndsWithAssistant(m) == m # << >> /\ m[Len(m)].role = "assistant"

\* C11: apart from a placeholder in front and one behind, the output of
\* prepare_messages is one message per maximal same-role run of the input, in
\* order, each holding the content blocks of its run in their order.
C11_RunsAreMerged ==
    IsSome(prepared) =>
        /\ IsOk(Unwrap(prepared))
        /\ LET n == Cardinality(RunStarts(wire_messages))
           IN  \E p, q \in {0, 1} :
                   /\ Len(Prepared) = p + n + q
                   /\ p = 1 => Prepared[1] = ListeningMessage
                   /\ q = 1 => Prepared[Len(Prepared)] = ListeningMessage
                   /\ SubSeq(Prepared, p + 1, p + n) = MergedRuns(wire_messages)

\* two User messages of different contents and an Assistant message, prepared
C11_Witness ==
    /\ IsSome(prepared)
    /\ Len(wire_messages) = 3
    /\ wire_messages[1].role = "user"
    /\ wire_messages[2].role = "user"
    /\ wire_messages[3].role = "assistant"
    /\ wire_messages[1].content = << WireText("a") >>
    /\ Len(wire_messages[2].content) = 2
    /\ Len(Prepared) = 3

\* C12: the empty list is prepared into the placeholder alone; a list that ends
\* with an Assistant message gets one placeholder behind its last run, a list
\* that starts with an Assistant message gets one in front of its first run, and
\* no other message is added.
C12_Placeholders ==
    IsSome(prepared) =>
        /\ IsOk(Unwrap(prepared))
        /\ LET m == wire_messages
               n == Cardinality(RunStarts(m))
               runs == MergedRuns(m)
           IN  /\ m = << >> => Prepared = << ListeningMessage >>
               /\ EndsWithAssistant(m) =>
                      /\ Prepared[Len(Prepared)] = ListeningMessage
                      /\ Prepared[Len(Prepared) - 1] = runs[n]
               /\ StartsWithAssistant(m) =>
                      /\ Prepared[1] = ListeningMessage
                      /\ Prepared[2] = runs[1]
               /\ Len(Prepared) = n + (IF m = << >> \/ StartsWithAssistant(m) THEN 1 ELSE 0)
                                    + (IF EndsWithAssistant(m) THEN 1 ELSE 0)

\* a list that starts and ends with an Assistant message, prepared
C12_Witness ==
    /\ IsSome(prepared)
    /\ Len(wire_messages) = 3
    /\ StartsWithAssistant(wire_messages)
    /\ wire_messages[2].role = "user"
    /\ EndsWithAssistant(wire_messages)
    /\ Len(Prepared) = 5

\* the lists that need nothing done
AlreadyValid(m) ==
    /\ m # << >>
    /\ m[1].role = "user"
    /\ m[Len(m)].role # "assistant"
    /\ \A i \in 1..(Len(m) - 1) : m[i].role # m[i + 1].role

\* C13: a list that alternates roles, starts with a User message and does not
\* end with an Assistant message is returned as it is.
C13_ValidListUnchanged ==
    (IsSome(prepared) /\ AlreadyValid(wire_messages)) =>
        prepared = Some(Ok(wire_messages))

\* User, Assistant, User, prepared
C13_Witness ==
    /\ IsSome(prepared)
    /\ Len(wire_messages) = 3
    /\ AlreadyValid(wire_messages)

(***************************************************************************)
(* Properties of GCPVertexAnthropicRequestBody::new, continued             *)
(***************************************************************************)
\* C14: a request without messages is refused with InvalidRequest, and no
\* request body is built, whatever its other fields are.
C14_EmptyMessagesRejected ==
    (HasBuilt /\ request.messages = << >>) =>
        /\ IsErr(Unwrap(built))
        /\ Unwrap(built).val.err = "InvalidRequest"

\* a request without messages but with tools, a tool choice and max_tokens
C14_Witness ==
    /\ HasBuilt
    /\ request.messages = << >>
    /\ ToolSet # << >>
    /\ Unwrap(request.tool_config).tool_choice.kind = "Specific"
    /\ IsSome(request.max_tokens)
    /\ IsErr(Unwrap(built))

(***************************************************************************)
(* Properties of handle_anthropic_error                                    *)
(***************************************************************************)
\* C15: the classifier never returns a success; for the statuses 400, 401, 413
\* and 429 it returns a client error with the body's message and the status,
\* for every other status a server error with the body's message.
C15_ErrorClassification ==
    IsSome(classified) =>
        LET outcome == Unwrap(classified)
        IN  /\ IsErr(outcome)
            /\ outcome.val.message = response_body.message
            /\ IF response_code \in {400, 401, 413, 429}
               THEN /\ outcome.val.err = "AnthropicClient"
                    /\ outcome.val.status = response_code
               ELSE outcome.val.err = "AnthropicServer"

\* a 404 with a message has been classified as a server error
C15_Witness ==
    /\ IsSome(classified)
    /\ response_code = 404
    /\ response_body.message = "Overloaded"
    /\ Unwrap(classified).val.err = "AnthropicServer"

(***************************************************************************)
(* Properties of the streaming call: demand and the event channel          *)
(***************************************************************************)
\* C16: when the consumer drops the chunk sequence before its end, close has
\* been called on the event source.
C16_AbandonedStreamIsClosed == (call = "ok" /\ st = "dropped") => closed

\* C17: the decoder reads an event only while a stream.next() call is
\* outstanding, an item answers the call and suspends the decoder, and the
\* items never outnumber the calls.
C17_PullBased ==
    /\ [](Len(items) <= pulls)
    /\ [][/\ pos' # pos => polling
          /\ items' # items => (Len(items') = Len(items) + 1 /\ ~polling')]_vars

\* two items taken by two calls, the rest of the source not read
C17_Witness ==
    /\ Len(items) = 2
    /\ pulls = 2
    /\ ~polling
    /\ st = "running"
    /\ pos = origin[2]
    /\ pos < Len(source)

\* The scheduling of a call whose consumer keeps pulling: the call is made, the
\* event source answers every read, and the consumer takes the first item and
\* asks for the next.
\* one event for each way a turn of the read loop can go: an item that is a
\* chunk, an item that is an error, no item, and the end of the loop
LiveEvents ==
    { DeltaText, StartTool("t1", "n1"), DeltaJson, ErrorEvent, TransportError, Garbage,
      Ping, OpenEvent, MessageStop }
LiveEventSources == UNION { [1..n -> LiveEvents] : n \in 0..MaxEvents }

InitLive == source \in LiveEventSources /\ CallStart

NextLive == OpenStream \/ ReadEvent \/ SourceEnd \/ FirstItem \/ Pull

SpecLive ==
    /\ InitLive
    /\ [][NextLive]_vars
    /\ WF_vars(OpenStream)
    /\ WF_vars(ReadEvent)
    /\ WF_vars(SourceEnd)
    /\ WF_vars(FirstItem)
    /\ WF_vars(Pull)

\* the chunk sequence is over: it has ended, or infer_stream has returned an error
\* in its place
StreamOver == st = "ended" \/ call = "err"

\* C18: with a finite event source and a consumer that keeps pulling the chunk
\* sequence eventually is over; when the read loop has exited the event channel
\* is closed; and no item is yielded once the sequence has ended.
C18_StreamEndsAndCloses ==
    /\ <>StreamOver
    /\ [](st = "ended" => closed)
    /\ [][st = "ended" => (st' = "ended" /\ items' = items)]_vars

\* three items were yielded, then the event source ended and was closed
C18_Witness ==
    /\ st = "ended"
    /\ closed
    /\ pos = Len(source)
    /\ Len(items) = 3
    /\ pulls = 4

(***************************************************************************)
(* Properties of two streams decoded side by side                          *)
(***************************************************************************)
IsPrefix(a, b) == Len(a) <= Len(b) /\ a = SubSeq(b, 1, Len(a))

\* C19: whatever the order in which two streams handle their events, a step of
\* one leaves the slots and the items of the other as they are, and the items of
\* each are those of its event source decoded alone.
C19_StreamsDoNotShareIdentity ==
    /\ [](\A s \in Streams :
              /\ IsPrefix(pair_items[s], Decode(pair_source[s]))
              /\ pair_ended[s] => pair_items[s] = Decode(pair_source[s]))
    /\ [][\A s \in Streams :
              pair_pos'[s] = pair_pos[s] =>
                  /\ pair_tool_id'[s] = pair_tool_id[s]
                  /\ pair_tool_name'[s] = pair_tool_name[s]
                  /\ pair_items'[s] = pair_items[s]]_vars

\* both streams have read a tool-call-start of their own and a delta after it,
\* and each delta's chunk carries the id and name of its own stream
C19_Witness ==
    /\ pair_source[1] = << StartTool("t1", "n1"), DeltaJson >>
    /\ pair_source[2] = << StartTool("t2", "n2"), DeltaJson >>
    /\ pair_pos[1] = 2
    /\ pair_pos[2] = 2
    /\ \E c \in ToolCallsOf(pair_items[1][2]) : c.id = "t1" /\ c.raw_name = "n1"
    /\ \E c \in ToolCallsOf(pair_items[2][2]) : c.id = "t2" /\ c.raw_name = "n2"

(***************************************************************************)
(* Properties of the conversions of a tool call                            *)
(***************************************************************************)
\* the compact string form of a JSON value: its tokens with nothing between
\* them, the members of an object in the order of their keys
RECURSIVE CompactForm(_)
RECURSIVE CompactList(_, _, _)
CompactList(entries, k, keyed) ==
    IF k > Len(entries)
    THEN << >>
    ELSE LET entry ==
                 (IF keyed THEN << Str(entries[k][1]), Punct(":") >> ELSE << >>)
                     \o CompactForm(entries[k][2])
         IN  IF k = Len(entries)
             THEN entry
             ELSE entry \o << Punct(",") >> \o CompactList(entries, k + 1, keyed)

CompactForm(value) ==
    IF value.t = "object"
    THEN << Punct("{") >> \o CompactList(value.members, 1, TRUE) \o << Punct("}") >>
    ELSE IF value.t = "array"
    THEN << Punct("[") >> \o CompactList(value.members, 1, FALSE) \o << Punct("]") >>
    ELSE << Token(CASE value.t = "string" -> "str"
                    [] value.t = "number" -> "num"
                    [] OTHER -> "lit",
                  value.atom) >>

\* C20: a ToolCall whose arguments are the compact string form of a JSON object
\* O is built into a ToolUse of the same id and name with input O, and a ToolUse
\* with input O is decoded into a ToolCall of the same id and name whose
\* arguments are the compact string form of O.
C20_ToolArgumentsRoundTrip ==
    LET O == Unwrap(tool_use).input
        compact == CompactForm(O)
    IN  /\ (IsSome(to_wire) /\ Unwrap(tool_call).arguments = compact) =>
               to_wire = Some(Ok(WireToolUse(Unwrap(tool_call).id,
                                             Unwrap(tool_call).name, O)))
        /\ IsSome(from_wire) =>
               from_wire = Some(Ok(ToolCall(Unwrap(tool_use).id,
                                            Unwrap(tool_use).name, compact)))

\* an object of two members, one of them an array, converted in both directions
C20_Witness ==
    /\ IsSome(to_wire)
    /\ IsSome(from_wire)
    /\ Len(Unwrap(tool_use).input.members) = 2
    /\ Unwrap(tool_use).input.members[2][2].t = "array"
    /\ Unwrap(tool_call).arguments = CompactForm(Unwrap(tool_use).input)
    /\ Unwrap(from_wire).val.arguments = Unwrap(tool_call).arguments
    /\ Unwrap(to_wire).val.input = Unwrap(tool_use).input

(***************************************************************************)
(* Properties of the streaming call: the identity slots and the usage      *)
(***************************************************************************)
\* the slot values the events read so far call for: those of the latest
\* tool-call-start, unset when there is none
LatestToolStart == MaxOf(ToolStartsUpTo(pos))

\* C23: the two slots change only when a ContentBlockStart(ToolUse) is read,
\* which sets them to its id and name; every other event leaves them alone, so
\* they hold the id and name of the latest tool-call-start read, whatever was
\* read after it.
C23_SlotsSetOnlyByToolStart ==
    /\ [](IF ToolStartsUpTo(pos) = {}
          THEN current_tool_id = None /\ current_tool_name = None
          ELSE /\ current_tool_id = Some(source[LatestToolStart].id)
               /\ current_tool_name = Some(source[LatestToolStart].name))
    /\ [][(current_tool_id' # current_tool_id \/ current_tool_name' # current_tool_name)
              => /\ pos' = pos + 1
                 /\ IsToolStart(source[pos'])
                 /\ current_tool_id' = Some(source[pos'].id)
                 /\ current_tool_name' = Some(source[pos'].name)]_vars

\* a partial-arguments chunk read after the ContentBlockStop of its tool call
C23_Witness ==
    /\ pos = 3
    /\ IsToolStart(source[1])
    /\ source[2] = BlockStop
    /\ source[3] = DeltaJson
    /\ Len(items) = 2
    /\ \E c \in ToolCallsOf(items[2]) : c.id = source[1].id /\ c.raw_name = source[1].name
    /\ current_tool_id = Some(source[1].id)

\* the count of a usage payload: zero when it is missing or no number
CountOf(count) == IF count = None THEN 0 ELSE Unwrap(count)

\* C24: a ContentBlockStop, a Ping and a MessageStart without usage give no
\* item; a MessageStart with usage and a MessageDelta give one chunk each, of
\* empty content and with the usage counts, a missing count being zero.
C24_NonContentEvents ==
    \A j \in 1..pos :
        /\ source[j] \in { BlockStop, Ping, MessageStartBare } =>
               \A i \in DOMAIN items : origin[i] # j
        /\ source[j] \in { MessageStartUsage, MessageDelta } =>
               /\ Cardinality({ i \in DOMAIN items : origin[i] = j }) = 1
               /\ \A i \in DOMAIN items :
                      origin[i] = j =>
                          /\ IsOk(items[i])
                          /\ items[i].val.content = << >>
                          /\ items[i].val.usage =
                                 Some([input_tokens |-> CountOf(source[j].usage.input_tokens),
                                       output_tokens |-> CountOf(source[j].usage.output_tokens)])

\* a MessageStart with usage, a Ping and a MessageDelta without an input count
C24_Witness ==
    /\ pos = 3
    /\ source = << MessageStartUsage, Ping, MessageDelta >>
    /\ Len(items) = 2
    /\ items[2].val.usage = Some([input_tokens |-> 0, output_tokens |-> 7])

\* C29: the two slots are set together, and a slot that is set stays set.
C29_SlotsSetTogether ==
    /\ [](IsSome(current_tool_id) <=> IsSome(current_tool_name))
    /\ [][/\ IsSome(current_tool_id) => IsSome(current_tool_id')
          /\ IsSome(current_tool_name) => IsSome(current_tool_name')]_vars

\* both slots set by a tool-call-start, and still set two events later
C29_Witness ==
    /\ pos = 3
    /\ IsToolStart(source[1])
    /\ ~IsToolStart(source[2])
    /\ ~IsToolStart(source[3])
    /\ IsSome(current_tool_id)
    /\ IsSome(current_tool_name)

(***************************************************************************)
(* Properties of the streaming call: the first item                        *)
(***************************************************************************)
\* the call has returned
Returned == call \in {"ok", "err"}

\* the events that give an item, up to the first MessageStop
ItemEvents ==
    { j \in 1..Len(source) :
        /\ IsFailure(j) \/ IsChunkEvent(j)
        /\ \A k \in 1..(j - 1) : source[k] # MessageStop }
MinOf(S) == CHOOSE x \in S : \A y \in S : x <= y

\* C25: when the first item of the stream is an error item, infer_stream fails
\* with that error and returns no stream: nothing is read behind the event of
\* the error, whatever follows it.
C25_FirstErrorFailsCall ==
    (Returned /\ ItemEvents # {} /\ IsFailure(MinOf(ItemEvents))) =>
        /\ call = "err"
        /\ first = NoChunk
        /\ items # << >>
        /\ IsErr(items[1])
        /\ error = Some(items[1].val)
        /\ Len(items) = 1
        /\ pos = MinOf(ItemEvents)
        /\ st = "dropped"

\* the call failed on an Error event that a text delta follows
C25_Witness ==
    /\ call = "err"
    /\ Len(source) = 3
    /\ source[1] = Ping
    /\ source[2] = ErrorEvent
    /\ source[3] = DeltaText
    /\ error = Some(AnthropicServer("overloaded"))

\* C26: when infer_stream succeeds its first chunk is the item of the first
\* event that gives one, the events before it having been skipped; the items
\* that follow are those of the later item events read, one each and in order,
\* and the whole is the decoding of the event source. The call fails for want of
\* a first chunk only when no event gives an item.
C26_FirstChunkThenRest ==
    /\ call = "ok" =>
           /\ first = Some(items[1].val)
           /\ origin[1] = MinOf(ItemEvents)
           /\ { origin[i] : i \in DOMAIN origin } = { j \in ItemEvents : j <= pos }
           /\ \A i, k \in DOMAIN origin : i < k => origin[i] < origin[k]
           /\ IsPrefix(items, Decode(source))
           /\ st = "ended" => items = Decode(source)
    /\ (call = "err" /\ error = Some(AnthropicServer("Stream ended before first chunk")))
           => ItemEvents = {}

\* a Ping and a ContentBlockStop were skipped before the first chunk, and the
\* returned stream gave one more item and ended
C26_Witness ==
    /\ call = "ok"
    /\ source[1] = Ping
    /\ source[2] = DeltaText
    /\ origin = << 2, 3 >>
    /\ st = "ended"
    /\ Unwrap(first) = items[1].val
    /\ items[2] # items[1]

(***************************************************************************)
(* Properties of prepare_messages, continued                               *)
(***************************************************************************)
\* C30: prepare_messages returns a message list for every list of messages, the
\* empty list and messages of empty content included; it never returns the
\* error "Last message is missing".
C30_NormalizationNeverFails ==
    IsSome(prepared) =>
        /\ IsOk(Unwrap(prepared))
        /\ Prepared # << >>

\* two messages of one role, the first of empty content, prepared
C30_Witness ==
    /\ IsSome(prepared)
    /\ Len(wire_messages) = 3
    /\ wire_messages[1].content = << >>
    /\ wire_messages[2].role = wire_messages[1].role
    /\ wire_messages[3].content = << >>
    /\ IsOk(Unwrap(prepared))

(***************************************************************************)
(* Properties of one call of infer or infer_stream                         *)
(***************************************************************************)
AuthMissing == Some(Err(ApiKeyMissing("GCP Vertex Anthropic")))
NothingIssued == token_requests = 0 /\ posts = 0 /\ opens = 0

\* C21: on a provider without credentials infer and infer_stream both fail with
\* the error ApiKeyMissing, and the call requests no token, sends no POST and
\* opens no event stream.
C21_NoCredentialsNoTransport ==
    credentials = None =>
        /\ NothingIssued
        /\ transport = None
        /\ pc \in { "start", "done" }
        /\ pc = "done" => result = AuthMissing

\* infer_stream has returned on a provider without credentials
C21_Witness ==
    /\ credentials = None
    /\ method = "infer_stream"
    /\ pc = "done"
    /\ result = AuthMissing

\* C22: no failure is retried: a call of infer sends at most one POST, a call of
\* infer_stream opens at most one event stream, and once the call has failed
\* (send error, non-success status, undecodable body, error item of the stream)
\* it requests no token and issues no request any more.
C22_NoRetry ==
    /\ [](/\ posts + opens <= 1
          /\ token_requests <= 1
          /\ method = "infer" => opens = 0
          /\ method = "infer_stream" => posts = 0)
    /\ [][result # None => UNCHANGED << token_requests, posts, opens, result >>]_vars

\* infer has returned the error of a POST that could not be sent
C22_Witness ==
    /\ method = "infer"
    /\ pc = "done"
    /\ posts = 1
    /\ result = Some(Err(InferenceClient("Error sending request")))

\* C27: the credentials are checked before the request is validated, and the
\* request is validated before the token is requested and anything is sent: an
\* empty message list on a provider without credentials fails with ApiKeyMissing,
\* not with the error of the validation, and a request that fails the validation
\* on a provider with credentials requests no token and sends nothing.
C27_CheckOrder ==
    /\ (credentials = None /\ request.messages = << >> /\ pc = "done") =>
           result = AuthMissing /\ built = None
    /\ (IsSome(credentials) /\ ~MessagesAcceptable /\ pc \notin { "start", "validate" }) =>
           /\ NothingIssued
           /\ pc = "done"
           /\ IsErr(Unwrap(result))
           /\ Unwrap(result).val.err \in { "InvalidRequest", "AnthropicClient" }
    /\ token_requests > 0 => BuiltOk
    /\ (posts > 0 \/ opens > 0) => token_requests > 0

\* infer has returned for an empty message list on a provider without credentials
C27_Witness ==
    /\ credentials = None
    /\ request.messages = << >>
    /\ method = "infer"
    /\ pc = "done"

\* C28: for a non-success status infer never returns a response, and when the
\* body of the answer is not the error payload it returns the error
\* AnthropicServer whatever the status, 400, 401, 413 and 429 included.
C28_UnparsableErrorBody ==
    (pc = "done" /\ IsSome(transport) /\ Unwrap(transport).status \notin 200..299) =>
        /\ IsErr(Unwrap(result))
        /\ Unwrap(transport).body.kind \in { "unreadable", "garbage", "response" } =>
               Unwrap(result).val = AnthropicServer("Error parsing response")

\* status 429 with a body that is no error payload has been answered
C28_Witness ==
    /\ pc = "done"
    /\ IsSome(transport)
    /\ Unwrap(transport).status = 429
    /\ Unwrap(transport).body.kind = "garbage"
    /\ Unwrap(result) = Err(AnthropicServer("Error parsing response"))

====
